---- MODULE Spec2Model ----
(***************************************************************************)
(* Rush Hour solver of src/Duck.py: the RushHourGame class (goal test,     *)
(* successor generation, move validation, state construction) and the      *)
(* uniform_cost_search loop over a heap frontier, an explored set and a    *)
(* state repository.                                                       *)
(*                                                                         *)
(* Cells are <<row, col>> pairs, 0-based as in the source.  A board is a   *)
(* sequence of rows of one-character strings.  A vehicle table is a        *)
(* sequence of records in dict insertion order:                            *)
(*   [id |-> "X", positions |-> <<cell, ...>>, orientation |-> "..."]      *)
(* A state is [board |-> ..., vehicles |-> ...].                           *)
(***************************************************************************)
EXTENDS Integers, Sequences, FiniteSets, TLC

VARIABLES game, pc, state_repository, frontier, explored, result, last

vars == <<game, pc, state_repository, frontier, explored, result, last>>

(***************************************************************************)
(* Bounds of the input family                                              *)
(***************************************************************************)
MaxSize == 4
MaxLen == 3
MaxUnitCost == 1

(***************************************************************************)
(* Generic helpers                                                         *)
(***************************************************************************)
Range(s) == {s[i] : i \in 1..Len(s)}

\* board[r][c] with 0-based indices
At(board, r, c) == board[r + 1][c + 1]

\* ord() of the one-character strings that occur on boards and as ids
Ord(ch) ==
  CASE ch = "." -> 46
    [] ch = "A" -> 65
    [] ch = "B" -> 66
    [] ch = "C" -> 67
    [] ch = "X" -> 88

\* Python's string order on the direction names: "down" < "left" < "right" < "up"
DirOrd(d) ==
  CASE d = "" -> 0
    [] d = "down" -> 1
    [] d = "left" -> 2
    [] d = "right" -> 3
    [] d = "up" -> 4

\* Python's string order on the orientation names: "horizontal" < "vertical"
OrientOrd(o) == IF o = "horizontal" THEN 0 ELSE 1

\* index of the table entry with the given id (0 when absent): dict lookup
IndexOf(vehicles, v) ==
  IF \E i \in 1..Len(vehicles) : vehicles[i].id = v
  THEN CHOOSE i \in 1..Len(vehicles) : vehicles[i].id = v
  ELSE 0

(***************************************************************************)
(* RushHourGame                                                            *)
(***************************************************************************)
\* __init__: the fields of a game object
NewGame(board, vehicles, unit_cost) ==
  [board |-> board,
   vehicles |-> vehicles,
   size |-> Len(board),
   exit_row |-> Len(board) \div 2,
   exit_col |-> Len(board) - 1,
   unit_cost |-> unit_cost]

\* variant of GoalScanPositions that looks at the first cell only
GoalScanHeadOnly(g, info, j) ==
  info.orientation = "horizontal" /\ info.positions[1][2] = g.exit_col

\* inner loop of is_goal over one vehicle's positions, from index j
RECURSIVE GoalScanPositions(_, _, _)
GoalScanPositions(g, info, j) ==
  IF j > Len(info.positions) THEN FALSE
  ELSE IF info.orientation = "horizontal" /\ info.positions[j][2] = g.exit_col
       THEN TRUE
       ELSE GoalScanPositions(g, info, j + 1)

\* outer loop of is_goal over the vehicle table, from index i
RECURSIVE GoalScanVehicles(_, _, _)
GoalScanVehicles(g, state, i) ==
  IF i > Len(state.vehicles) THEN FALSE
  ELSE IF state.vehicles[i].id = "X" /\ GoalScanPositions(g, state.vehicles[i], 1)
       THEN TRUE
       ELSE GoalScanVehicles(g, state, i + 1)

\* variant of is_goal that recognises the goal only after some vehicle has moved
is_goal_after_move(g, state) ==
  state.vehicles # g.vehicles /\ GoalScanVehicles(g, state, 1)

is_goal(g, state) == GoalScanVehicles(g, state, 1)

\* variant of is_valid_move without the exemption for the vehicle's own cells
is_valid_move_no_own(board, old_positions, new_positions) ==
  \A k \in 1..Len(new_positions) :
    At(board, new_positions[k][1], new_positions[k][2]) = "."

is_valid_move(board, old_positions, new_positions) ==
  \A k \in 1..Len(new_positions) :
    \/ At(board, new_positions[k][1], new_positions[k][2]) = "."
    \/ new_positions[k] \in Range(old_positions)

\* variant of MovedBoard with the two loops exchanged: the new cells written
\* first, then the old cells cleared
MovedBoard_clear_last(board, id, old_positions, new_positions) ==
  [r \in 1..Len(board) |->
    [c \in 1..Len(board[r]) |->
      IF <<r - 1, c - 1>> \in Range(old_positions) THEN "."
      ELSE IF <<r - 1, c - 1>> \in Range(new_positions) THEN id
      ELSE board[r][c]]]

\* the board after the two loops of create_new_state: old cells cleared first,
\* then the new cells written
MovedBoard(board, id, old_positions, new_positions) ==
  [r \in 1..Len(board) |->
    [c \in 1..Len(board[r]) |->
      IF <<r - 1, c - 1>> \in Range(new_positions) THEN id
      ELSE IF <<r - 1, c - 1>> \in Range(old_positions) THEN "."
      ELSE board[r][c]]]

create_new_state(old_state, i, new_positions) ==
  [board |-> MovedBoard(old_state.board, old_state.vehicles[i].id,
                        old_state.vehicles[i].positions, new_positions),
   vehicles |-> [old_state.vehicles EXCEPT ![i].positions = new_positions]]

Shift(positions, dr, dc) ==
  [k \in 1..Len(positions) |-> <<positions[k][1] + dr, positions[k][2] + dc>>]

\* variant of TryMove that checks the bounds only, not the occupancy
TryMove_unchecked(g, state, i, endpos, dr, dc) ==
  LET positions == state.vehicles[i].positions
      nr == endpos[1] + dr
      nc == endpos[2] + dc
      inside == IF dr + dc < 0 THEN (IF dr # 0 THEN nr >= 0 ELSE nc >= 0)
                ELSE (IF dr # 0 THEN nr < g.size ELSE nc < g.size)
  IN IF inside
     THEN << <<create_new_state(state, i, Shift(positions, dr, dc)),
               Len(positions) * g.unit_cost>> >>
     ELSE << >>

\* one "Try moving ..." block of get_successors: the cell beyond the end cell
\* `endpos` in direction (dr, dc) must be on the board and hold '.', and the
\* shifted cells must pass is_valid_move
TryMove(g, state, i, endpos, dr, dc) ==
  LET board == state.board
      positions == state.vehicles[i].positions
      nr == endpos[1] + dr
      nc == endpos[2] + dc
      inside == IF dr + dc < 0 THEN (IF dr # 0 THEN nr >= 0 ELSE nc >= 0)
                ELSE (IF dr # 0 THEN nr < g.size ELSE nc < g.size)
      move_cost == Len(positions) * g.unit_cost
  IN IF inside /\ At(board, nr, nc) = "."
     THEN CHOOSE found \in
            {IF is_valid_move(board, positions, new_positions)
             THEN << <<create_new_state(state, i, new_positions), move_cost>> >>
             ELSE << >> :
               new_positions \in {Shift(positions, dr, dc)}} : TRUE
     ELSE << >>

\* variant of VehicleSuccessors that tries the decreasing direction only
VehicleSuccessors_one_way(g, state, i) ==
  LET info == state.vehicles[i]
  IN IF info.orientation = "horizontal"
     THEN TryMove(g, state, i, info.positions[1], 0, -1)
     ELSE IF info.orientation = "vertical"
     THEN TryMove(g, state, i, info.positions[1], -1, 0)
     ELSE << >>

\* the body of the for loop of get_successors for the i-th vehicle
VehicleSuccessors(g, state, i) ==
  LET info == state.vehicles[i]
      n == Len(info.positions)
  IN IF info.orientation = "horizontal"
     THEN TryMove(g, state, i, info.positions[1], 0, -1)
          \o TryMove(g, state, i, info.positions[n], 0, 1)
     ELSE IF info.orientation = "vertical"
     THEN TryMove(g, state, i, info.positions[1], -1, 0)
          \o TryMove(g, state, i, info.positions[n], 1, 0)
     ELSE << >>

RECURSIVE SuccessorsFrom(_, _, _)
SuccessorsFrom(g, state, i) ==
  IF i > Len(state.vehicles) THEN << >>
  ELSE VehicleSuccessors(g, state, i) \o SuccessorsFrom(g, state, i + 1)

get_successors(g, state) == SuccessorsFrom(g, state, 1)

(***************************************************************************)
(* uniform_cost_search: canonical key, frontier order, loop body           *)
(***************************************************************************)
\* sorted(state['vehicles'].items()): insertion of an item into a list sorted by id
RECURSIVE InsertById(_, _)
InsertById(sorted, item) ==
  IF sorted = << >> THEN <<item>>
  ELSE IF Ord(item.id) < Ord(Head(sorted).id)
       THEN <<item>> \o sorted
       ELSE <<Head(sorted)>> \o InsertById(Tail(sorted), item)

\* variant of SortedItems that keeps the table's own order
SortedItems_unsorted(vehicles, n) == SubSeq(vehicles, 1, n)

RECURSIVE SortedItems(_, _)
SortedItems(vehicles, n) ==
  IF n = 0 THEN << >>
  ELSE CHOOSE out \in
         {InsertById(sorted, vehicles[n]) : sorted \in {SortedItems(vehicles, n - 1)}} : TRUE

get_state_hash(state) ==
  CHOOSE key \in
    {<<state.board,
       [k \in 1..Len(items) |-> <<items[k].id, items[k].positions, items[k].orientation>>]>> :
         items \in {SortedItems(state.vehicles, Len(state.vehicles))}} : TRUE

\* concatenation of the integer sequences ss[i], ss[i + 1], ...
RECURSIVE FlattenFrom(_, _)
FlattenFrom(ss, i) == IF i > Len(ss) THEN << >> ELSE ss[i] \o FlattenFrom(ss, i + 1)

\* concatenation of a sequence of integer sequences
Flatten(ss) == CHOOSE flat \in {FlattenFrom(v, 1) : v \in {ss}} : TRUE

\* Python's < on tuples/lists of integers: the first difference decides, and
\* without one the shorter sequence is smaller
LexLess(a, b) ==
  \E diff \in {{i \in 1..Len(a) : i <= Len(b) /\ a[i] # b[i]}} :
    IF diff = {} THEN Len(a) < Len(b)
    ELSE \E i \in diff : (\A j \in diff : i <= j) /\ a[i] < b[i]

\* a key as the integers Python compares, in comparison order.  All keys of
\* one search have the same shape (same board size, same ids, same lengths),
\* so tuple order is the order of the flattened sequences.
KeyFlat(key) ==
  Flatten([r \in 1..Len(key[1]) |-> [c \in 1..Len(key[1][r]) |-> Ord(key[1][r][c])]])
  \o Flatten([k \in 1..Len(key[2]) |->
       <<Ord(key[2][k][1])>>
       \o Flatten([j \in 1..Len(key[2][k][2]) |-> key[2][k][2][j]])
       \o <<OrientOrd(key[2][k][3])>>])

\* a path as the integers Python compares: every step is a 3-tuple
PathFlat(path) ==
  Flatten([k \in 1..Len(path) |-> <<Ord(path[k][1]), DirOrd(path[k][2]), path[k][3]>>])

\* variant of EntryLess that compares the costs only, so that entries of equal
\* cost stay in insertion order
EntryLess_cost_only(a, b) == a[1] < b[1]

\* variant of EntryLess that orders the entries by the number of moves of
\* their paths instead of their costs
EntryLess_by_moves(a, b) == Len(a[3]) < Len(b[3])

\* Python's < on frontier entries (total_cost, hash, path)
EntryLess(a, b) ==
  \/ a[1] < b[1]
  \/ /\ a[1] = b[1]
     /\ \/ \E ka \in {KeyFlat(a[2])} : \E kb \in {KeyFlat(b[2])} : LexLess(ka, kb)
        \/ /\ a[2] = b[2]
           /\ \E pa \in {PathFlat(a[3])} : \E pb \in {PathFlat(b[3])} : LexLess(pa, pb)

\* variant of heappush that appends, as a plain list would
heappush_append(heap, entry) == Append(heap, entry)

\* variant of heappop that leaves the popped entry in the frontier
heappop_rest_peek(heap) == heap

\* variant of heappush that keeps the greatest entry first, as a max-heap would
heappush_max_first(heap, entry) ==
  CHOOSE pushed \in
    {SubSeq(heap, 1, k) \o <<entry>> \o SubSeq(heap, k + 1, Len(heap)) :
       k \in {Cardinality({i \in 1..Len(heap) : EntryLess(entry, heap[i])})}} : TRUE

\* heapq as a priority queue: the frontier is kept as the sorted list of the
\* heap's entries, so heappop takes the head
heappush(heap, entry) ==
  CHOOSE pushed \in
    {SubSeq(heap, 1, k) \o <<entry>> \o SubSeq(heap, k + 1, Len(heap)) :
       k \in {Cardinality({i \in 1..Len(heap) : ~EntryLess(entry, heap[i])})}} : TRUE

heappop_item(heap) == Head(heap)

heappop_rest(heap) == Tail(heap)

\* variant of FindMoved that stops at the first vehicle whose positions are the
\* same in the child
RECURSIVE FindMoved_unmoved(_, _, _)
FindMoved_unmoved(current_state, successor, i) ==
  IF i > Len(current_state.vehicles) THEN "None"
  ELSE LET v == current_state.vehicles[i].id
       IN IF current_state.vehicles[i].positions
               = successor.vehicles[IndexOf(successor.vehicles, v)].positions
          THEN v
          ELSE FindMoved_unmoved(current_state, successor, i + 1)

\* lines 149-153: the first vehicle of the parent whose positions differ in
\* the child ("None" when there is none)
RECURSIVE FindMoved(_, _, _)
FindMoved(current_state, successor, i) ==
  IF i > Len(current_state.vehicles) THEN "None"
  ELSE LET v == current_state.vehicles[i].id
       IN IF current_state.vehicles[i].positions
               # successor.vehicles[IndexOf(successor.vehicles, v)].positions
          THEN v
          ELSE FindMoved(current_state, successor, i + 1)

\* variant of Direction with the two names of each axis exchanged
Direction_swapped(current_state, successor, moved_vehicle) ==
  IF moved_vehicle = "None" THEN ""
  ELSE LET i == IndexOf(current_state.vehicles, moved_vehicle)
           old_pos == current_state.vehicles[i].positions[1]
           new_pos == successor.vehicles[IndexOf(successor.vehicles, moved_vehicle)].positions[1]
       IN IF current_state.vehicles[i].orientation = "horizontal"
          THEN (IF new_pos[2] > old_pos[2] THEN "left" ELSE "right")
          ELSE (IF new_pos[1] > old_pos[1] THEN "up" ELSE "down")

\* lines 156-163
Direction(current_state, successor, moved_vehicle) ==
  IF moved_vehicle = "None" THEN ""
  ELSE LET old_pos == current_state.vehicles[IndexOf(current_state.vehicles, moved_vehicle)].positions[1]
           new_pos == successor.vehicles[IndexOf(successor.vehicles, moved_vehicle)].positions[1]
       IN IF current_state.vehicles[IndexOf(current_state.vehicles, moved_vehicle)].orientation
               = "horizontal"
          THEN (IF new_pos[2] > old_pos[2] THEN "right" ELSE "left")
          ELSE (IF new_pos[1] > old_pos[1] THEN "down" ELSE "up")

\* variant of NewEntry whose path step records the move's own cost instead of
\* the cumulative cost
NewEntry_incremental(current_state, total_cost, path, successor, cost) ==
  LET moved_vehicle == FindMoved(current_state, successor, 1)
  IN <<total_cost + cost, get_state_hash(successor),
       path \o << <<moved_vehicle, Direction(current_state, successor, moved_vehicle), cost>> >> >>

\* the frontier entry built for one successor (lines 146-169)
NewEntry(current_state, total_cost, path, successor, cost) ==
  LET new_cost == total_cost + cost
  IN CHOOSE entry \in
       {<<new_cost, get_state_hash(successor),
          path \o << <<moved_vehicle, Direction(current_state, successor, moved_vehicle),
                       new_cost>> >> >> :
          moved_vehicle \in {FindMoved(current_state, successor, 1)}} : TRUE

\* variant of Store that files the first state only
Store_root_only(repo, key, state) ==
  IF DOMAIN repo = {} THEN [k \in {key} |-> state] ELSE repo

\* state_repository[key] = state
Store(repo, key, state) ==
  [k \in (DOMAIN repo) \cup {key} |-> IF k = key THEN state ELSE repo[k]]

\* variant of ExpandOne that files the successor under the parent's key
ExpandOne_store_at_parent(acc, current_state, total_cost, path, expl, successor, cost) ==
  LET entry == NewEntry(current_state, total_cost, path, successor, cost)
  IN IF entry[2] \notin expl
     THEN [frontier |-> heappush(acc.frontier, entry),
           repo |-> Store(acc.repo, get_state_hash(current_state), successor),
           pushed |-> Append(acc.pushed, entry)]
     ELSE acc

\* one pass of the body of the for loop (lines 142-170) for `successor`,
\* from the frontier, repository and list of pushed entries in acc
ExpandOne(acc, current_state, total_cost, path, expl, successor, cost) ==
  CHOOSE out \in
    {IF entry[2] \notin expl
     THEN [frontier |-> heappush(acc.frontier, entry),
           repo |-> Store(acc.repo, entry[2], successor),
           pushed |-> Append(acc.pushed, entry)]
     ELSE acc :
       entry \in {NewEntry(current_state, total_cost, path, successor, cost)}} : TRUE

\* the for loop of lines 142-170 over the first n successors, starting from
\* acc0.  (The result for n - 1 is bound to a value before the n-th pass.)
RECURSIVE ExpandFrom(_, _, _, _, _, _, _)
ExpandFrom(succs, n, current_state, total_cost, path, expl, acc0) ==
  IF n = 0 THEN acc0
  ELSE CHOOSE out \in
         {ExpandOne(acc, current_state, total_cost, path, expl, succs[n][1], succs[n][2]) :
            acc \in {ExpandFrom(succs, n - 1, current_state, total_cost, path, expl, acc0)}} : TRUE

(***************************************************************************)
(* Inputs: every table of up to three vehicles X, A, B of length 2..MaxLen  *)
(* on the 3x3 board, a family of tables on the boards of size 4..MaxSize,  *)
(* the board drawn from the table, and the 6x6 example of the source's     *)
(* __main__ block                                                          *)
(***************************************************************************)
NoSharedCell(vehicles) ==
  \A i, j \in 1..Len(vehicles) :
    i # j => Range(vehicles[i].positions) \cap Range(vehicles[j].positions) = {}

UnitCosts == 0..MaxUnitCost

Cells(len, r, c, orientation) ==
  [k \in 1..len |-> IF orientation = "horizontal" THEN <<r, c + k - 1>> ELSE <<r + k - 1, c>>]

\* the ways to put vehicle `id` on an N x N board; positions << >> means that
\* the table has no such vehicle
Anchors(N) ==
  {t \in (2..MaxLen) \X (0..(N - 1)) \X (0..(N - 1)) : t[3] + t[1] <= N}

Placements(N, id) ==
  {[id |-> id, positions |-> << >>, orientation |-> "horizontal"]}
  \cup {[id |-> id, positions |-> Cells(t[1], t[2], t[3], "horizontal"),
         orientation |-> "horizontal"] : t \in Anchors(N)}
  \cup {[id |-> id, positions |-> Cells(t[1], t[3], t[2], "vertical"),
         orientation |-> "vertical"] : t \in Anchors(N)}

Present(v) == v.positions # << >>

VehicleTables(N) ==
  {SelectSeq(<<x, a, b>>, Present) :
     <<x, a, b>> \in
       {t \in Placements(N, "X") \X Placements(N, "A") \X Placements(N, "B") : NoSharedCell(t)}}

BoardOf(N, vehicles) ==
  [r \in 1..N |->
    [c \in 1..N |->
      IF \E i \in 1..Len(vehicles) : <<r - 1, c - 1>> \in Range(vehicles[i].positions)
      THEN vehicles[CHOOSE i \in 1..Len(vehicles) :
                      <<r - 1, c - 1>> \in Range(vehicles[i].positions)].id
      ELSE "."]]

\* the board and the vehicle table of the __main__ block
ExampleBoard ==
  << <<".", ".", ".", ".", ".", ".">>,
     <<".", ".", "B", ".", "C", ".">>,
     <<"A", "A", "X", "X", "C", ".">>,
     <<".", ".", "B", ".", "C", ".">>,
     <<".", ".", ".", ".", ".", ".">>,
     <<".", ".", ".", ".", ".", ".">> >>

ExampleVehicles ==
  << [id |-> "X", positions |-> << <<2, 2>>, <<2, 3>> >>, orientation |-> "horizontal"],
     [id |-> "A", positions |-> << <<2, 0>>, <<2, 1>> >>, orientation |-> "horizontal"],
     [id |-> "B", positions |-> << <<1, 2>>, <<3, 2>> >>, orientation |-> "vertical"],
     [id |-> "C", positions |-> << <<2, 4>>, <<3, 4>>, <<4, 4>> >>, orientation |-> "vertical"] >>

ExampleGame == NewGame(ExampleBoard, ExampleVehicles, 1)

\* larger boards, on which vehicles of different lengths move: X in row 1 at
\* the left edge, A vertical in one of the two rightmost columns, B horizontal
MixedTables(N) ==
  {<<x, a, b>> \in
     {[id |-> "X", positions |-> Cells(2, 1, 0, "horizontal"), orientation |-> "horizontal"]}
     \X {[id |-> "A", positions |-> Cells(t[1], t[3], t[2], "vertical"), orientation |-> "vertical"] :
           t \in {t \in Anchors(N) : t[2] >= N - 2}}
     \X {[id |-> "B", positions |-> Cells(t[1], t[2], t[3], "horizontal"), orientation |-> "horizontal"] :
           t \in Anchors(N)} :
     NoSharedCell(<<x, a, b>>)}

\* 5x5 tables on which the solution of fewest moves is not the cheapest one:
\* a short vehicle blocks X and can leave the row by a long way at once, or
\* by a short way after a longer vehicle has been moved aside
TradeoffTables ==
  { << [id |-> "X", positions |-> <<(<<2, 2>>), (<<2, 3>>)>>, orientation |-> "horizontal"],
       [id |-> "A", positions |-> <<(<<2, 0>>), (<<2, 1>>)>>, orientation |-> "horizontal"],
       [id |-> "B", positions |-> <<(<<0, 2>>), (<<0, 3>>), (<<0, 4>>)>>, orientation |-> "horizontal"],
       [id |-> "C", positions |-> <<(<<1, 4>>), (<<2, 4>>)>>, orientation |-> "vertical"] >>,
    << [id |-> "X", positions |-> <<(<<2, 0>>), (<<2, 1>>)>>, orientation |-> "horizontal"],
       [id |-> "A", positions |-> <<(<<0, 1>>), (<<0, 2>>), (<<0, 3>>)>>, orientation |-> "horizontal"],
       [id |-> "B", positions |-> <<(<<1, 3>>), (<<2, 3>>)>>, orientation |-> "vertical"] >>,
    << [id |-> "X", positions |-> <<(<<2, 1>>), (<<2, 2>>)>>, orientation |-> "horizontal"],
       [id |-> "A", positions |-> <<(<<4, 1>>), (<<4, 2>>), (<<4, 3>>)>>, orientation |-> "horizontal"],
       [id |-> "B", positions |-> <<(<<2, 3>>), (<<3, 3>>)>>, orientation |-> "vertical"] >> }

\* a 6x6 table without X, so that the search pops every reachable state.  A
\* can pass column 3 after B has moved up twice, or after C has moved left and
\* B down once; with B and C back in place the two routes end in one state,
\* after eight moves each, at costs 16 and 18
DetourTable ==
  << [id |-> "C", positions |-> <<(<<5, 1>>), (<<5, 2>>), (<<5, 3>>)>>, orientation |-> "horizontal"],
     [id |-> "B", positions |-> <<(<<3, 3>>), (<<4, 3>>)>>, orientation |-> "vertical"],
     [id |-> "A", positions |-> <<(<<3, 0>>), (<<3, 1>>)>>, orientation |-> "horizontal"] >>

\* every table on the 3x3 board with every unit cost, the mixed tables on the
\* boards of size 4..MaxSize, the trade-off tables, the detour table and the
\* example
Games ==
  {NewGame(BoardOf(3, vs), vs, u) : <<vs, u>> \in VehicleTables(3) \X UnitCosts}
  \cup UNION {{NewGame(BoardOf(N, vs), vs, 1) : vs \in MixedTables(N)} : N \in 4..MaxSize}
  \cup {NewGame(BoardOf(5, vs), vs, 1) : vs \in TradeoffTables}
  \cup {NewGame(BoardOf(6, DetourTable), DetourTable, 1)}
  \cup {ExampleGame}

NoIteration ==
  [kind |-> "none", total_cost |-> 0, hash |-> << >>, path |-> << >>,
   successors |-> << >>, pushed |-> << >>]

NoResult == [kind |-> "pending", path |-> << >>, cost |-> 0]

(***************************************************************************)
(* The state machine: a game object is constructed, uniform_cost_search    *)
(* sets up its structures and runs one loop iteration per step             *)
(***************************************************************************)
Init ==
  /\ game \in Games
  /\ pc = "start"
  /\ state_repository = << >>
  /\ frontier = << >>
  /\ explored = {}
  /\ result = NoResult
  /\ last = NoIteration

\* lines 110-129
Setup ==
  /\ pc = "start"
  /\ LET initial_state == [board |-> game.board, vehicles |-> game.vehicles]
         state_hash == get_state_hash(initial_state)
     IN /\ state_repository' = Store(<< >>, state_hash, initial_state)
        /\ frontier' = heappush(<< >>, <<0, state_hash, << >> >>)
  /\ explored' = {}
  /\ pc' = "loop"
  /\ UNCHANGED <<game, result, last>>

\* line 131 false, line 172: kind "None" stands for (None, float('inf'))
Exhausted ==
  /\ pc = "loop"
  /\ frontier = << >>
  /\ result' = [kind |-> "None", path |-> << >>, cost |-> 0]
  /\ pc' = "done"
  /\ last' = [NoIteration EXCEPT !.kind = "exhausted"]
  /\ UNCHANGED <<game, state_repository, frontier, explored>>

\* lines 132-136: the popped key is already explored
PopExplored ==
  /\ pc = "loop"
  /\ frontier # << >>
  /\ LET entry == heappop_item(frontier)
     IN /\ entry[2] \in explored
        /\ frontier' = heappop_rest(frontier)
        /\ last' = [NoIteration EXCEPT !.kind = "skip", !.total_cost = entry[1],
                                       !.hash = entry[2], !.path = entry[3]]
  /\ UNCHANGED <<game, pc, state_repository, explored, result>>

\* lines 132-140: the popped state is a goal
PopGoal ==
  /\ pc = "loop"
  /\ frontier # << >>
  /\ LET entry == heappop_item(frontier)
         current_state == state_repository[entry[2]]
     IN /\ entry[2] \notin explored
        /\ is_goal(game, current_state)
        /\ frontier' = heappop_rest(frontier)
        /\ explored' = explored \cup {entry[2]}
        /\ result' = [kind |-> "path", path |-> entry[3], cost |-> entry[1]]
        /\ last' = [NoIteration EXCEPT !.kind = "goal", !.total_cost = entry[1],
                                       !.hash = entry[2], !.path = entry[3]]
  /\ pc' = "done"
  /\ UNCHANGED <<game, state_repository>>

\* variant of Expand that does not record the popped key as explored
Expand_forgetful ==
  /\ pc = "loop"
  /\ frontier # << >>
  /\ \E entry \in {heappop_item(frontier)} :
     \E current_state \in {state_repository[entry[2]]} :
       /\ entry[2] \notin explored
       /\ ~is_goal(game, current_state)
       /\ \E succs \in {get_successors(game, current_state)} :
          \E out \in {ExpandFrom(succs, Len(succs), current_state, entry[1], entry[3],
                                 explored,
                                 [frontier |-> heappop_rest(frontier),
                                  repo |-> state_repository,
                                  pushed |-> << >>])} :
            /\ explored' = explored
            /\ frontier' = out.frontier
            /\ state_repository' = out.repo
            /\ last' = [kind |-> "expand", total_cost |-> entry[1], hash |-> entry[2],
                        path |-> entry[3], successors |-> succs, pushed |-> out.pushed]
  /\ UNCHANGED <<game, pc, result>>

\* lines 132-170: the popped state is expanded
Expand ==
  /\ pc = "loop"
  /\ frontier # << >>
  /\ \E entry \in {heappop_item(frontier)} :
     \E current_state \in {state_repository[entry[2]]} :
       /\ entry[2] \notin explored
       /\ ~is_goal(game, current_state)
       /\ \E succs \in {get_successors(game, current_state)} :
          \E out \in {ExpandFrom(succs, Len(succs), current_state, entry[1], entry[3],
                                 explored \cup {entry[2]},
                                 [frontier |-> heappop_rest(frontier),
                                  repo |-> state_repository,
                                  pushed |-> << >>])} :
            /\ explored' = explored \cup {entry[2]}
            /\ frontier' = out.frontier
            /\ state_repository' = out.repo
            /\ last' = [kind |-> "expand", total_cost |-> entry[1], hash |-> entry[2],
                        path |-> entry[3], successors |-> succs, pushed |-> out.pushed]
  /\ UNCHANGED <<game, pc, result>>

Next == Setup \/ Exhausted \/ PopExplored \/ PopGoal \/ Expand

Spec == Init /\ [][Next]_vars

\* the loop runs to completion: nothing suspends it
FairSpec == Spec /\ WF_vars(Next)

(***************************************************************************)
(* Reference notions the properties are stated against.  They are defined  *)
(* on the vehicle table alone (cell sets), not through the operators above *)
(***************************************************************************)
InBounds(N, cell) == cell[1] \in 0..(N - 1) /\ cell[2] \in 0..(N - 1)

\* in-bounds, contiguous, aligned with the orientation, increasing along the axis
WellFormedVehicle(N, v) ==
  /\ Len(v.positions) >= 1
  /\ v.orientation \in {"horizontal", "vertical"}
  /\ \A k \in 1..Len(v.positions) : InBounds(N, v.positions[k])
  /\ \A k \in 2..Len(v.positions) :
       IF v.orientation = "horizontal"
       THEN v.positions[k] = <<v.positions[k - 1][1], v.positions[k - 1][2] + 1>>
       ELSE v.positions[k] = <<v.positions[k - 1][1] + 1, v.positions[k - 1][2]>>

WellFormedTable(N, vehicles) ==
  /\ \A i \in 1..Len(vehicles) : WellFormedVehicle(N, vehicles[i])
  /\ NoSharedCell(vehicles)

\* a cell holds v's identifier exactly when it is one of v's cells, '.' otherwise
BoardAgrees(board, vehicles) ==
  \A r \in 1..Len(board) : \A c \in 1..Len(board[r]) :
    /\ \A i \in 1..Len(vehicles) :
         board[r][c] = vehicles[i].id <=> <<r - 1, c - 1>> \in Range(vehicles[i].positions)
    /\ board[r][c] = "." <=>
         \A i \in 1..Len(vehicles) : <<r - 1, c - 1>> \notin Range(vehicles[i].positions)

WellFormedState(N, state) ==
  /\ Len(state.board) = N
  /\ \A r \in 1..N : Len(state.board[r]) = N
  /\ WellFormedTable(N, state.vehicles)
  /\ BoardAgrees(state.board, state.vehicles)

WellFormedInput == WellFormedState(game.size, [board |-> game.board, vehicles |-> game.vehicles])

\* the two unit steps along a vehicle's axis
Steps(orientation) ==
  IF orientation = "horizontal" THEN {<<0, -1>>, <<0, 1>>} ELSE {<<-1, 0>>, <<1, 0>>}

Translate(positions, d) ==
  [k \in 1..Len(positions) |-> <<positions[k][1] + d[1], positions[k][2] + d[2]>>]

\* a legal one-cell move: every cell of the shifted vehicle is on the board
\* and none is held by another vehicle
LegalMove(N, vehicles, i, d) ==
  /\ d \in Steps(vehicles[i].orientation)
  /\ \A cell \in Range(Translate(vehicles[i].positions, d)) :
       /\ InBounds(N, cell)
       /\ \A j \in 1..Len(vehicles) : j # i => cell \notin Range(vehicles[j].positions)

AllSteps == {<<0, -1>>, <<0, 1>>, <<-1, 0>>, <<1, 0>>}

\* the tables one legal move away, each with the length of the moved vehicle
MovesFrom(N, vehicles) ==
  {<<[vehicles EXCEPT ![m[1]].positions = Translate(@, m[2])], Len(vehicles[m[1]].positions)>> :
     m \in {m \in (1..Len(vehicles)) \X AllSteps : LegalMove(N, vehicles, m[1], m[2])}}

RECURSIVE Closure(_, _, _)
Closure(N, seen, fresh) ==
  IF fresh = {} THEN seen
  ELSE LET next == UNION {{m[1] : m \in MovesFrom(N, t)} : t \in fresh}
       IN Closure(N, seen \cup fresh, next \ (seen \cup fresh))

\* every table reachable from `vehicles` by legal one-cell moves
ReachableTables(N, vehicles) == Closure(N, {}, {vehicles})

GoalTable(N, vehicles) ==
  \E i \in 1..Len(vehicles) :
    /\ vehicles[i].id = "X"
    /\ vehicles[i].orientation = "horizontal"
    /\ \E k \in 1..Len(vehicles[i].positions) : vehicles[i].positions[k][2] = N - 1

Min(S) == CHOOSE x \in S : \A y \in S : x <= y

\* Bellman-Ford relaxation rounds over the reachable tables; -1 = not reached yet
RECURSIVE Relax(_, _, _)
Relax(nodes, pred, dist) ==
  LET new == [n \in nodes |->
                LET via == {dist[e[1]] + e[2] : e \in {e \in pred[n] : dist[e[1]] >= 0}}
                    all == via \cup (IF dist[n] >= 0 THEN {dist[n]} ELSE {})
                IN IF all = {} THEN -1 ELSE Min(all)]
  IN IF new = dist THEN dist ELSE Relax(nodes, pred, new)

\* least total cost (sum of length x unit_cost) of a sequence of legal moves
\* from `vehicles` to each reachable table
MinCosts(N, vehicles, unit_cost) ==
  LET nodes == ReachableTables(N, vehicles)
      edges == UNION {{<<t, m[1], m[2] * unit_cost>> : m \in MovesFrom(N, t)} : t \in nodes}
      pred == [n \in nodes |-> {<<e[1], e[3]>> : e \in {e \in edges : e[2] = n}}]
  IN Relax(nodes, pred, [n \in nodes |-> IF n = vehicles THEN 0 ELSE -1])

GoalReachable == \E t \in ReachableTables(game.size, game.vehicles) : GoalTable(game.size, t)

MinGoalCost ==
  LET dist == MinCosts(game.size, game.vehicles, game.unit_cost)
  IN Min({dist[t] : t \in {t \in DOMAIN dist : GoalTable(game.size, t)}})

(***************************************************************************)
(* Properties                                                              *)
(***************************************************************************)
\* C1: when a goal state is reachable by legal one-cell moves, the search
\* returns a path and its total cost is the minimum, over all move sequences
\* to any goal state, of the sum of (moved vehicle length x unit_cost)
Optimality ==
  (pc = "done" /\ GoalReachable) => (result.kind = "path" /\ result.cost = MinGoalCost)

\* a solved run of at least two moves that left a costlier entry unexpanded
OptimalityWitness ==
  /\ pc = "done" /\ result.kind = "path" /\ Len(result.path) >= 2
  /\ result.cost = MinGoalCost
  /\ \E k \in 1..Len(frontier) : frontier[k][1] > result.cost

\* C2: the search ends with the no-solution result exactly when no goal state
\* is reachable by legal one-cell moves, with a path and a finite cost whenever
\* one is; and no step fails: the popped key is always in the repository
NoSolutionIffUnreachable ==
  /\ pc = "done" =>
       /\ result.kind \in {"path", "None"}
       /\ result.kind = "None" <=> ~GoalReachable
       /\ result.kind = "path" <=> GoalReachable
  /\ (pc = "loop" /\ frontier # << >>) => heappop_item(frontier)[2] \in DOMAIN state_repository

\* a search that expanded several states and then ran out of frontier
NoSolutionWitness ==
  /\ pc = "done" /\ result.kind = "None" /\ ~GoalReachable
  /\ Cardinality(explored) >= 4
  /\ \E i \in 1..Len(game.vehicles) : game.vehicles[i].id = "X"

\* C3: the loop stops; when no move sequence reaches the exit it stops with an
\* empty frontier and the no-solution result
Termination ==
  <>(pc = "done" /\ (~GoalReachable => (frontier = << >> /\ result.kind = "None")))

\* an unsolvable puzzle whose whole state space was explored, with entries
\* popped and discarded on the way
TerminationWitness ==
  /\ pc = "done" /\ frontier = << >> /\ result.kind = "None"
  /\ explored = DOMAIN state_repository
  /\ Cardinality(explored) >= 6

\* the state popped by the last loop iteration
Popped == state_repository[last.hash]

\* C4: is_goal holds of a state exactly when vehicle 'X' exists, is horizontal
\* and has some cell (not only its first) in column N-1; the loop returns on
\* the popped state in exactly that case and expands it otherwise
GoalCorrectness ==
  /\ \A k \in DOMAIN state_repository :
       is_goal(game, state_repository[k]) <=> GoalTable(game.size, state_repository[k].vehicles)
  /\ last.kind = "goal" => GoalTable(game.size, Popped.vehicles)
  /\ last.kind = "expand" => ~GoalTable(game.size, Popped.vehicles)

\* a goal found after at least one move, X's first cell short of the exit
\* column, while the repository also holds non-goal states
GoalCorrectnessWitness ==
  /\ last.kind = "goal" /\ Len(last.path) >= 1
  /\ \E i \in 1..Len(Popped.vehicles) :
       /\ Popped.vehicles[i].id = "X"
       /\ Popped.vehicles[i].positions[1][2] # game.exit_col
  /\ \E k \in DOMAIN state_repository : ~is_goal(game, state_repository[k])

\* the identifiers on the board in X's row to the right of X's last cell
BlockersOfX(g) ==
  LET x == g.vehicles[IndexOf(g.vehicles, "X")]
      tail == x.positions[Len(x.positions)]
  IN {At(g.board, tail[1], c) : c \in (tail[2] + 1)..(g.size - 1)} \ {"."}

\* C5: on the 6x6 example with unit_cost 1, C is the only vehicle between X and
\* column 5, and the search returns the path that moves C down out of row 2 and
\* then X right twice, at the brute-force minimum cost (7)
ExampleScenario ==
  /\ game = ExampleGame => BlockersOfX(game) = {"C"}
  /\ (game = ExampleGame /\ pc = "done") =>
       /\ result.kind = "path"
       /\ result.path = << <<"C", "down", 3>>, <<"X", "right", 5>>, <<"X", "right", 7>> >>
       /\ \A cell \in Range(Translate(ExampleVehicles[4].positions, <<1, 0>>)) : cell[1] # 2
       /\ result.cost = MinGoalCost
       /\ result.cost = 7

ExampleScenarioWitness ==
  game = ExampleGame /\ pc = "done" /\ result.kind = "path" /\ Len(result.path) = 3

\* C6: if every vehicle of a state is in bounds, contiguous, aligned and
\* increasing and no two share a cell, the same holds of every successor
\* get_successors returns, hence of every state created from such an input
MoveLegalityPreserved ==
  /\ (last.kind = "expand" /\ WellFormedTable(game.size, Popped.vehicles)) =>
       \A k \in 1..Len(last.successors) :
         WellFormedTable(game.size, last.successors[k][1].vehicles)
  /\ WellFormedTable(game.size, game.vehicles) =>
       \A k \in DOMAIN state_repository :
         WellFormedTable(game.size, state_repository[k].vehicles)

\* an expansion of a well-formed state, two moves deep, with a blocked vehicle
MoveLegalityWitness ==
  /\ last.kind = "expand" /\ Len(last.path) >= 2
  /\ WellFormedTable(game.size, Popped.vehicles)
  /\ Len(Popped.vehicles) = 3
  /\ Len(last.successors) \in 1..3

\* the states one legal move away, the board redrawn from the moved table
ReferenceSuccessors(N, state) ==
  {[board |-> BoardOf(N, m[1]), vehicles |-> m[1]] : m \in MovesFrom(N, state.vehicles)}

\* C7: for a well-formed state get_successors returns exactly the states one
\* legal one-cell move away, each once, at most two per vehicle
SuccessorsExact ==
  (last.kind = "expand" /\ WellFormedState(game.size, Popped)) =>
    /\ {last.successors[k][1] : k \in 1..Len(last.successors)}
         = ReferenceSuccessors(game.size, Popped)
    /\ Len(last.successors) = Cardinality(ReferenceSuccessors(game.size, Popped))
    /\ \A i \in 1..Len(Popped.vehicles) :
         Cardinality({k \in 1..Len(last.successors) :
                        last.successors[k][1].vehicles[i] # Popped.vehicles[i]}) <= 2

\* an expansion where one vehicle moves both ways and another is stuck
SuccessorsExactWitness ==
  /\ last.kind = "expand" /\ WellFormedState(game.size, Popped)
  /\ \E i, j \in 1..Len(Popped.vehicles) :
       /\ Cardinality({k \in 1..Len(last.successors) :
                         last.successors[k][1].vehicles[i] # Popped.vehicles[i]}) = 2
       /\ \A k \in 1..Len(last.successors) :
            last.successors[k][1].vehicles[j] = Popped.vehicles[j]

\* the cell entered by vehicle v moving by d: beyond its first cell when
\* decreasing, beyond its last cell when increasing
EnteredCell(v, d) ==
  LET e == IF d[1] + d[2] < 0 THEN v.positions[1] ELSE v.positions[Len(v.positions)]
  IN <<e[1] + d[1], e[2] + d[2]>>

MoveProduced(i, d) ==
  \E k \in 1..Len(last.successors) :
    last.successors[k][1].vehicles[i].positions = Translate(Popped.vehicles[i].positions, d)

\* C8: in every expanded state, whatever input the search was given, a
\* vehicle's move in a direction is produced if and only if the single entered
\* cell is in bounds and empty or its own
EnablingRuleSingleCell ==
  last.kind = "expand" =>
    \A i \in 1..Len(Popped.vehicles) : \A d \in Steps(Popped.vehicles[i].orientation) :
      MoveProduced(i, d) <=>
        LET cell == EnteredCell(Popped.vehicles[i], d)
        IN /\ InBounds(game.size, cell)
           /\ \/ At(Popped.board, cell[1], cell[2]) = "."
              \/ cell \in Range(Popped.vehicles[i].positions)

\* what get_successors and is_valid_move test in every expanded state: the
\* entered cell is in bounds and empty and every cell of the vehicle shifted by
\* one is empty or one of the vehicle's current cells; in every well-formed
\* state the single-cell rule of C8 holds as stated
EnablingRule ==
  last.kind = "expand" =>
    /\ \A i \in 1..Len(Popped.vehicles) : \A d \in Steps(Popped.vehicles[i].orientation) :
         MoveProduced(i, d) <=>
           LET cell == EnteredCell(Popped.vehicles[i], d)
           IN /\ InBounds(game.size, cell)
              /\ At(Popped.board, cell[1], cell[2]) = "."
              /\ \A c \in Range(Translate(Popped.vehicles[i].positions, d)) :
                   \/ At(Popped.board, c[1], c[2]) = "."
                   \/ c \in Range(Popped.vehicles[i].positions)
    /\ WellFormedState(game.size, Popped) => EnablingRuleSingleCell

\* the example board, which is searched although B's cells are not
\* contiguous: B's entered cell (0,2) is on the board and empty, yet B is not
\* moved up, because its second cell would land on X
EnablingRuleWitness ==
  /\ game = ExampleGame /\ last.kind = "expand"
  /\ Popped.vehicles[3].positions = << <<1, 2>>, <<3, 2>> >>
  /\ At(Popped.board, 0, 2) = "." /\ At(Popped.board, 2, 2) = "X"
  /\ ~MoveProduced(3, <<-1, 0>>)
  /\ Len(last.successors) >= 1

LengthOf(v) == Len(game.vehicles[IndexOf(game.vehicles, v)].positions)

\* the k-th step of a path records the sum of the first k move costs, and the
\* entry's cost is the last step's
PathCostsAddUp(cost, path) ==
  /\ \A k \in 1..Len(path) :
       path[k][3] = (IF k = 1 THEN 0 ELSE path[k - 1][3]) + LengthOf(path[k][1]) * game.unit_cost
  /\ cost = IF path = << >> THEN 0 ELSE path[Len(path)][3]

\* C9: every successor carries the cost (cells of the moved vehicle) x unit_cost
\* whatever the direction; every frontier entry's cost, and the returned total
\* cost, is the sum of the move costs of its path, step k recording the sum of
\* the first k
CostAccounting ==
  /\ last.kind = "expand" =>
       \A k \in 1..Len(last.successors) : \A i \in 1..Len(Popped.vehicles) :
         last.successors[k][1].vehicles[i] # Popped.vehicles[i] =>
           last.successors[k][2] = Len(Popped.vehicles[i].positions) * game.unit_cost
  /\ \A k \in 1..Len(frontier) : PathCostsAddUp(frontier[k][1], frontier[k][3])
  /\ result.kind = "path" => PathCostsAddUp(result.cost, result.path)

\* a returned path that moves vehicles of two different lengths
CostAccountingWitness ==
  /\ pc = "done" /\ result.kind = "path" /\ game.unit_cost = 1
  /\ \E j, k \in 1..Len(result.path) :
       LengthOf(result.path[j][1]) = 2 /\ LengthOf(result.path[k][1]) = 3
  /\ result.cost = result.path[Len(result.path)][3]

\* C10: with a board and vehicle table that are inconsistent, no frontier pop
\* and no expansion ever takes place
MalformedFailsFast ==
  ~WellFormedInput => (last.kind = "none" /\ explored = {})

\* C11: when the initial table already has X in the exit column, the search
\* returns the empty path with cost 0 as a success at its first pop, and no
\* successor is ever generated or stored
AlreadySolved ==
  GoalTable(game.size, game.vehicles) =>
    /\ last.kind \in {"none", "goal"}
    /\ last.successors = << >> /\ last.pushed = << >>
    /\ Cardinality(DOMAIN state_repository) <= 1
    /\ \A k \in 1..Len(frontier) : frontier[k] = <<0, frontier[k][2], << >> >>
    /\ last.kind = "goal" =>
         /\ pc = "done"
         /\ result = [kind |-> "path", path |-> << >>, cost |-> 0]
         /\ frontier = << >>
    /\ pc = "done" => last.kind = "goal"

\* a finished search on a solved table with three vehicles, one of which could move
AlreadySolvedWitness ==
  /\ GoalTable(game.size, game.vehicles)
  /\ pc = "done" /\ result.kind = "path" /\ result.path = << >> /\ result.cost = 0
  /\ Len(game.vehicles) = 3 /\ game.unit_cost = 1
  /\ get_successors(game, [board |-> game.board, vehicles |-> game.vehicles]) # << >>

\* Python's order on nested tuples, component by component: -1, 0 or 1
Cmp3(a, b) == IF a < b THEN -1 ELSE IF a > b THEN 1 ELSE 0

\* the first comparison that is not "equal" decides; the second is made only
\* when the first finds no difference
OrElse(first, second) == IF first # 0 THEN first ELSE second

\* sequences compare by their first differing elements; without a difference
\* within the common length the shorter one is smaller
CmpSeq(Cmp(_, _), a, b) ==
  LET diff == {i \in 1..(IF Len(a) < Len(b) THEN Len(a) ELSE Len(b)) : a[i] # b[i]}
  IN IF diff = {} THEN Cmp3(Len(a), Len(b))
     ELSE LET i == CHOOSE i \in diff : \A j \in diff : i <= j
          IN Cmp(a[i], b[i])

CmpChar(a, b) == Cmp3(Ord(a), Ord(b))

CmpCell(a, b) == CmpSeq(Cmp3, a, b)

CmpRow(a, b) == CmpSeq(CmpChar, a, b)

CmpCells(a, b) == CmpSeq(CmpCell, a, b)

\* (id, positions, orientation)
CmpItem(a, b) ==
  OrElse(CmpChar(a[1], b[1]),
         OrElse(CmpCells(a[2], b[2]), Cmp3(OrientOrd(a[3]), OrientOrd(b[3]))))

\* (board, items)
CmpKey(a, b) == OrElse(CmpSeq(CmpRow, a[1], b[1]), CmpSeq(CmpItem, a[2], b[2]))

\* (vehicle, direction, cumulative cost)
CmpStep(a, b) ==
  OrElse(CmpChar(a[1], b[1]), OrElse(Cmp3(DirOrd(a[2]), DirOrd(b[2])), Cmp3(a[3], b[3])))

\* (cost, key, path)
CmpEntry(a, b) ==
  OrElse(Cmp3(a[1], b[1]), OrElse(CmpKey(a[2], b[2]), CmpSeq(CmpStep, a[3], b[3])))

\* the least entry of a set of frontier entries
LeastEntry(front) == CHOOSE e \in front : \A f \in front : f = e \/ CmpEntry(e, f) = -1

\* the state a key stands for, its table listed in key order
StateOfKey(key) ==
  [board |-> key[1],
   vehicles |-> [k \in 1..Len(key[2]) |->
                   [id |-> key[2][k][1], positions |-> key[2][k][2], orientation |-> key[2][k][3]]]]

\* the search run on an unordered frontier: the pending entries are a set, the
\* least one is taken, states are rebuilt from their keys
RECURSIVE SetSearch(_, _)
SetSearch(front, expl) ==
  IF front = {} THEN [kind |-> "None", path |-> << >>, cost |-> 0]
  ELSE LET e == LeastEntry(front)
           st == StateOfKey(e[2])
           succs == get_successors(game, st)
           new == {NewEntry(st, e[1], e[3], succs[k][1], succs[k][2]) : k \in 1..Len(succs)}
       IN IF e[2] \in expl THEN SetSearch(front \ {e}, expl)
          ELSE IF GoalTable(game.size, st.vehicles)
          THEN [kind |-> "path", path |-> e[3], cost |-> e[1]]
          ELSE SetSearch((front \ {e}) \cup {n \in new : n[2] \notin expl \cup {e[2]}},
                         expl \cup {e[2]})

\* C12: the run is a function of the input.  Every pop takes the entry that is
\* least under the order (cost, key, path) of Python's tuple comparison; that
\* order leaves no two distinct pending entries tied; and the result is the
\* one obtained from the pending entries as a set, whatever the order in which
\* they were pushed and whatever the order of the vehicle table
Determinism ==
  /\ [](/\ \A i, j \in 1..Len(frontier) :
            (i < j /\ CmpEntry(frontier[i], frontier[j]) = 0) => frontier[i] = frontier[j]
        /\ pc = "done" =>
             result = SetSearch({<<0, get_state_hash([board |-> game.board,
                                                      vehicles |-> game.vehicles]), << >> >>}, {}))
  /\ [][(pc = "loop" /\ frontier # << >>) =>
          LET e == <<last'.total_cost, last'.hash, last'.path>>
          IN /\ e \in Range(frontier)
             /\ \A k \in 1..Len(frontier) : frontier[k] = e \/ CmpEntry(e, frontier[k]) = -1]_vars

\* a pop that chose between two pending entries of equal cost pushed in the
\* opposite order of their keys
DeterminismWitness ==
  /\ last.kind = "expand" /\ Len(last.pushed) >= 2
  /\ \E i, j \in 1..Len(last.pushed) :
       /\ i < j
       /\ last.pushed[i][1] = last.pushed[j][1]
       /\ CmpKey(last.pushed[j][2], last.pushed[i][2]) = -1
       /\ \E m, n \in 1..Len(frontier) :
            m < n /\ frontier[m] = last.pushed[j] /\ frontier[n] = last.pushed[i]

\* a board that shows exactly its vehicle table, no cell claimed twice
Consistent(state) == BoardAgrees(state.board, state.vehicles) /\ NoSharedCell(state.vehicles)

\* C13: from an input whose board agrees with its vehicle table, in every
\* state the search creates (every successor generated, every state stored) a
\* cell holds an identifier exactly when it is one of that vehicle's cells,
\* holds '.' otherwise, and no cell belongs to two vehicles
BoardVehicleConsistency ==
  BoardAgrees(game.board, game.vehicles) =>
    /\ \A k \in DOMAIN state_repository : Consistent(state_repository[k])
    /\ last.kind = "expand" =>
         \A k \in 1..Len(last.successors) : Consistent(last.successors[k][1])

\* an expansion three moves deep that produced successors for two vehicles,
\* the board of each differing from the parent's in two cells
BoardVehicleConsistencyWitness ==
  /\ BoardAgrees(game.board, game.vehicles)
  /\ last.kind = "expand" /\ Len(last.path) >= 3
  /\ \E j, k \in 1..Len(last.successors) :
       /\ FindMoved(Popped, last.successors[j][1], 1) # FindMoved(Popped, last.successors[k][1], 1)
       /\ Cardinality({rc \in (1..game.size) \X (1..game.size) :
                         last.successors[j][1].board[rc[1]][rc[2]] # Popped.board[rc[1]][rc[2]]}) = 2

\* the root state of the search: a copy of the caller's board and table
RootState == [board |-> game.board, vehicles |-> game.vehicles]

\* C14: no step changes the caller's board and vehicle table; the state stored
\* under a key of the repository stays the same configuration for the rest of
\* the search, the expanded parent's in particular, also when a successor is
\* stored again under a key the repository already has; and the root stays as
\* the caller passed it
ParentImmutability ==
  /\ [](pc # "start" => state_repository[get_state_hash(RootState)] = RootState)
  /\ [][/\ game' = game
        /\ \A k \in DOMAIN state_repository :
             k \in DOMAIN state_repository' /\ state_repository'[k] = state_repository[k]
        /\ last'.kind = "expand" =>
             /\ last'.hash \in DOMAIN state_repository
             /\ state_repository'[last'.hash] = state_repository[last'.hash]]_vars

\* an expansion that stored a successor under a key the repository already
\* had: the frontier holds an older entry for the same key
ParentImmutabilityWitness ==
  /\ last.kind = "expand" /\ Len(last.path) >= 1
  /\ \E j \in 1..Len(last.pushed) : \E k \in 1..Len(frontier) :
       /\ frontier[k][2] = last.pushed[j][2]
       /\ frontier[k] \notin Range(last.pushed)
  /\ state_repository[last.hash] = Popped

\* C15: a key enters the explored set at its first pop and never leaves it;
\* that pop alone is goal-tested and expanded.  A pop of a key that is already
\* explored only removes the entry: nothing is pushed or stored, the explored
\* set and the result stay as they are.  (Entries for one key may coexist.)
ExpandOnce ==
  [][/\ explored \subseteq explored'
     /\ (pc = "loop" /\ frontier # << >>) =>
          IF Head(frontier)[2] \in explored
          THEN /\ last'.kind = "skip" /\ last'.hash = Head(frontier)[2]
               /\ last'.successors = << >> /\ last'.pushed = << >>
               /\ frontier' = Tail(frontier)
               /\ explored' = explored
               /\ state_repository' = state_repository
               /\ result' = result /\ pc' = "loop"
          ELSE /\ last'.kind \in {"goal", "expand"} /\ last'.hash = Head(frontier)[2]
               /\ explored' = explored \cup {Head(frontier)[2]}
               /\ Cardinality(explored') = Cardinality(explored) + 1]_vars

\* a discarded pop, while the frontier still holds two different entries for
\* one key and a further entry whose key is already explored
ExpandOnceWitness ==
  /\ last.kind = "skip" /\ last.hash \in explored
  /\ \E i, j \in 1..Len(frontier) :
       frontier[i][2] = frontier[j][2] /\ frontier[i] # frontier[j]
  /\ \E k \in 1..Len(frontier) : frontier[k][2] \in explored

\* the same table listed in every order: the possible iteration orders of the dict
Reorderings(vehicles) ==
  {[k \in 1..Len(vehicles) |-> vehicles[f[k]]] :
     f \in {f \in [1..Len(vehicles) -> 1..Len(vehicles)] :
              \A i, j \in 1..Len(vehicles) : f[i] = f[j] => i = j}}

\* same board contents and the same (id, cells, orientation) for every vehicle
SameConfiguration(s, t) ==
  /\ s.board = t.board
  /\ Len(s.vehicles) = Len(t.vehicles)
  /\ Range(s.vehicles) = Range(t.vehicles)

\* the states at hand: the root, or the expanded state and its successors
StatesAtHand ==
  IF last.kind = "expand"
  THEN {Popped} \cup {last.successors[k][1] : k \in 1..Len(last.successors)}
  ELSE {RootState}

\* the board of one state at hand with the table of another, in every order
KeyInputs ==
  UNION {{[board |-> ab[2].board, vehicles |-> w] : w \in Reorderings(ab[1].vehicles)} :
           ab \in StatesAtHand \X StatesAtHand}

\* C16: two states get equal keys exactly when they have the same board and
\* the same (id, cells, orientation) for every vehicle, in whatever order their
\* tables list the vehicles; states that differ in a board cell or in a
\* vehicle never share a key
KeyIdentity ==
  LET key == [t \in StatesAtHand |-> get_state_hash(t)]
  IN \A s \in KeyInputs : \E key_s \in {get_state_hash(s)} :
       \A t \in StatesAtHand : (key_s = key[t]) <=> SameConfiguration(s, t)

\* an expansion of a three-vehicle state not listed in id order, with two
\* successors that differ from each other in board and table
KeyIdentityWitness ==
  /\ last.kind = "expand" /\ Len(Popped.vehicles) = 3
  /\ Popped.vehicles[1].id = "X"
  /\ \E j, k \in 1..Len(last.successors) :
       /\ ~SameConfiguration(last.successors[j][1], last.successors[k][1])
       /\ get_state_hash(last.successors[j][1]) # get_state_hash(last.successors[k][1])
  /\ \E w \in Reorderings(Popped.vehicles) :
       /\ w # Popped.vehicles
       /\ get_state_hash([board |-> Popped.board, vehicles |-> w]) = last.hash

\* the unit step a direction name stands for
StepOf(direction) ==
  CASE direction = "left" -> <<0, -1>>
    [] direction = "right" -> <<0, 1>>
    [] direction = "up" -> <<-1, 0>>
    [] direction = "down" -> <<1, 0>>

\* the board after a vehicle has left the cells `old` for the cells `new`
Redrawn(board, id, old, new) ==
  LET taken == Range(new)
      left == Range(old) \ Range(new)
  IN [r \in 1..Len(board) |->
       [c \in 1..Len(board[r]) |->
         CASE <<r - 1, c - 1>> \in taken -> id
           [] <<r - 1, c - 1>> \in left -> "."
           [] OTHER -> board[r][c]]]

\* the state obtained by replaying steps k.. of a path as one-cell moves from
\* `state`; ok is FALSE when a step names no vehicle of the table, carries no
\* direction name, or is not a legal move (LegalMove includes the axis)
RECURSIVE Replay(_, _, _, _)
Replay(N, state, path, k) ==
  IF k > Len(path) THEN [ok |-> TRUE, state |-> state]
  ELSE LET who == {i \in 1..Len(state.vehicles) : state.vehicles[i].id = path[k][1]}
       IN IF Cardinality(who) # 1 \/ path[k][2] \notin {"left", "right", "up", "down"}
          THEN [ok |-> FALSE, state |-> state]
          ELSE LET i == CHOOSE i \in who : TRUE
                   d == StepOf(path[k][2])
                   old == state.vehicles[i].positions
               IN IF LegalMove(N, state.vehicles, i, d)
                  THEN Replay(N,
                              [board |-> Redrawn(state.board, path[k][1], old, Translate(old, d)),
                               vehicles |-> [state.vehicles EXCEPT ![i].positions = Translate(old, d)]],
                              path, k + 1)
                  ELSE [ok |-> FALSE, state |-> state]

\* replaying the entry's path from the input is legal throughout and ends in
\* the configuration the entry's key spells out
PathLeadsToKey(entry) ==
  LET r == Replay(game.size, RootState, entry[3], 1)
  IN /\ r.ok
     /\ entry[2][1] = r.state.board
     /\ Len(entry[2][2]) = Len(r.state.vehicles)
     /\ Range(entry[2][2])
          = {<<v.id, v.positions, v.orientation>> : v \in Range(r.state.vehicles)}
     /\ BoardAgrees(game.board, game.vehicles) =>
          r.state.board = BoardOf(game.size, r.state.vehicles)

\* C17: for every frontier entry, and for the popped one, every step of the
\* path names a vehicle of the table and a direction on that vehicle's axis,
\* and replaying the steps from the input as one-cell moves is legal and ends
\* in the state the key identifies; the returned path ends in a goal state
PathFaithfulness ==
  /\ \A k \in 1..Len(frontier) : PathLeadsToKey(frontier[k])
  /\ last.kind \in {"skip", "goal", "expand"} =>
       PathLeadsToKey(<<last.total_cost, last.hash, last.path>>)
  /\ result.kind = "path" =>
       LET r == Replay(game.size, RootState, result.path, 1)
       IN r.ok /\ GoalTable(game.size, r.state.vehicles)

\* a pending entry whose path of four steps or more moves a horizontal and a
\* vertical vehicle
PathFaithfulnessWitness ==
  /\ pc = "loop"
  /\ \E k \in 1..Len(frontier) :
       LET path == frontier[k][3]
       IN /\ Len(path) >= 4
          /\ \E a, b \in 1..Len(path) :
               path[a][2] \in {"left", "right"} /\ path[b][2] \in {"up", "down"}
          /\ PathLeadsToKey(frontier[k])

\* the key spells out exactly this state: its board and, per vehicle, its
\* (id, cells, orientation)
KeySpells(key, state) ==
  /\ key[1] = state.board
  /\ Len(key[2]) = Len(state.vehicles)
  /\ Range(key[2]) = {<<v.id, v.positions, v.orientation>> : v \in Range(state.vehicles)}

\* C18: every key in a frontier entry, and every popped key, is a key of the
\* repository, and the state stored under a key is the one the key spells out
\* and has that key as its canonical key
RepositoryConsistency ==
  /\ \A k \in 1..Len(frontier) : frontier[k][2] \in DOMAIN state_repository
  /\ last.kind \in {"skip", "goal", "expand"} => last.hash \in DOMAIN state_repository
  /\ \A key \in DOMAIN state_repository :
       /\ KeySpells(key, state_repository[key])
       /\ get_state_hash(state_repository[key]) = key
  /\ explored \subseteq DOMAIN state_repository

\* a search under way with six stored states or more, the frontier holding an
\* entry still to be expanded and an entry whose key is already explored
RepositoryConsistencyWitness ==
  /\ pc = "loop" /\ Cardinality(DOMAIN state_repository) >= 6
  /\ \E j, k \in 1..Len(frontier) :
       frontier[j][2] \notin explored /\ frontier[k][2] \in explored
  /\ \A k \in 1..Len(frontier) : KeySpells(frontier[k][2], state_repository[frontier[k][2]])

\* the last step popped a frontier entry
PoppedAnEntry(l) == l.kind \in {"skip", "goal", "expand"}

\* C19: with unit_cost >= 0 the costs of successive pops (discarded ones
\* included) never decrease, every entry pushed by an expansion costs at
\* least what the expanded entry cost, and so does every entry left pending
MonotoneExpansion ==
  /\ [](game.unit_cost >= 0 =>
          /\ last.kind = "expand" =>
               \A k \in 1..Len(last.pushed) : last.pushed[k][1] >= last.total_cost
          /\ PoppedAnEntry(last) =>
               \A k \in 1..Len(frontier) : frontier[k][1] >= last.total_cost)
  /\ [][(game.unit_cost >= 0 /\ PoppedAnEntry(last) /\ PoppedAnEntry(last')) =>
          last'.total_cost >= last.total_cost]_vars

\* an expansion at a positive cost that pushed entries of two different
\* costs, both higher, while an entry of the popped cost is still pending
MonotoneExpansionWitness ==
  /\ last.kind = "expand" /\ last.total_cost > 0 /\ game.unit_cost > 0
  /\ \E j, k \in 1..Len(last.pushed) :
       last.total_cost < last.pushed[j][1] /\ last.pushed[j][1] < last.pushed[k][1]
  /\ \E k \in 1..Len(frontier) : frontier[k][1] = last.total_cost

\* the states (board and table) one legal move away, each with the length of
\* the moved vehicle; the board is redrawn for the moved vehicle
StateAfterMove(state, i, d) ==
  [board |-> Redrawn(state.board, state.vehicles[i].id, state.vehicles[i].positions,
                     Translate(state.vehicles[i].positions, d)),
   vehicles |-> [state.vehicles EXCEPT ![i].positions = Translate(@, d)]]

StateMovesFrom(N, state) ==
  {<<StateAfterMove(state, m[1], m[2]), Len(state.vehicles[m[1]].positions)>> :
     m \in {m \in (1..Len(state.vehicles)) \X AllSteps : LegalMove(N, state.vehicles, m[1], m[2])}}

\* the states one legal move of a vehicle of length `len` away from `state`
StateMovesOfLength(N, state, len) ==
  {StateAfterMove(state, m[1], m[2]) :
     m \in {m \in {i \in 1..Len(state.vehicles) : Len(state.vehicles[i].positions) = len} \X AllSteps :
              LegalMove(N, state.vehicles, m[1], m[2])}}

RECURSIVE StateClosure(_, _, _)
StateClosure(N, seen, fresh) ==
  IF fresh = {} THEN seen
  ELSE LET next == UNION {{m[1] : m \in StateMovesFrom(N, t)} : t \in fresh}
       IN StateClosure(N, seen \cup fresh, next \ (seen \cup fresh))

\* the states by least total cost (sum of length x unit_cost > 0 per move) of
\* a sequence of legal moves from `root`: layers[c + 1] holds
\* the states whose least cost is c.  `layers` covers the costs below
\* Len(layers) and is extended up to cost `top`: a state of least cost c is
\* one move of cost w away from a state of least cost c - w
RECURSIVE CostLayers(_, _, _, _, _)
CostLayers(N, unit_cost, root, layers, top) ==
  IF Len(layers) > top THEN layers
  ELSE LET c == Len(layers)
           from == UNION {layers[c - len * unit_cost + 1] \X {len} :
                            len \in {len \in {Len(v.positions) : v \in Range(root.vehicles)} :
                                       len * unit_cost <= c}}
           reached == UNION {StateMovesOfLength(N, sl[1], sl[2]) : sl \in from}
       IN CHOOSE out \in
            {CostLayers(N, unit_cost, root, longer, top) :
               longer \in {Append(layers, reached \ UNION Range(layers))}} : TRUE

\* `cost` is the least total cost of a sequence of legal moves from `root`
\* to `state`; with unit_cost 0 every reachable state costs 0
IsLeastCost(N, unit_cost, root, state, cost) ==
  IF unit_cost = 0
  THEN cost = 0 /\ state \in StateClosure(N, {}, {root})
  ELSE state \in CostLayers(N, unit_cost, root, << {root} >>, cost)[cost + 1]

\* C20: with unit_cost >= 0, when a key is popped for the first time (goal or
\* not) the entry's cost is the least total cost of any sequence of legal
\* one-cell moves from the input state to the popped state: no route is
\* cheaper, whatever pushes were skipped
FirstPopCheapest ==
  (game.unit_cost >= 0 /\ last.kind \in {"goal", "expand"}) =>
    IsLeastCost(game.size, game.unit_cost, RootState, Popped, last.total_cost)

\* a first pop of a state that was also reached by a dearer route: the dearer
\* entry for the same key is still pending
FirstPopCheapestWitness ==
  /\ last.kind = "expand" /\ last.total_cost > 0
  /\ \E k \in 1..Len(frontier) :
       frontier[k][2] = last.hash /\ frontier[k][1] > last.total_cost
  /\ Len(last.successors) > Len(last.pushed)

====
